---- MODULE Spec2Model ----
(***************************************************************************)
(* EcoDrive Query API: the /query routing cycle (process_query), the       *)
(* in-memory conversation store and DELETE /conversation/{id}.             *)
(*                                                                         *)
(* Python lists are objects: the store maps a conversation id to a list    *)
(* object, and process_query, classify_intent and the generators all work  *)
(* on references to it.  The model keeps a heap of list objects so that    *)
(* aliasing between the store and a request's working history is visible.  *)
(* Every `await` of an external call is a suspension point: one action of  *)
(* the model is the code that runs between two suspension points.          *)
(***************************************************************************)
EXTENDS Integers, Sequences, FiniteSets, TLC

\* ---------------------------------------------------------------- bounds
MaxCycles == 2
NumProcs == 2

Procs == 1..NumProcs

\* ------------------------------------------------------- input alphabets
None == "<None>"
CallerIds == {"c1"}
Queries == {"q1", "q2"}
Phones == {"+56900000000"}
Names == {"Maria"}
\* Profile names to compare a request with.
AnyNames == Names \cup {"Juan"}
Texts == {"t1"}

\* A value of the classifier's JSON "intent" field that is not a string.
JsonNumber == "<json number>"

Labels == {"saudacao", "informacoes", "atendimento", "reclamacao", "elogio", "outros"}

\* Another one: a JSON array.
JsonList == "<json list>"

IntentValues == Labels \cup {"greeting", JsonNumber, JsonList}

\* What the classification capability can answer: the API call raises, the
\* content is not JSON, the JSON object has no "intent" key, or it has one.
ClassifierReplies ==
    {[kind |-> k, value |-> ""] : k \in {"raise", "invalid_json", "no_intent"}}
        \cup {[kind |-> "intent", value |-> v] : v \in IntentValues}

\* What a chat completion can answer: a text, or the call raises.
CompletionReplies ==
    {[ok |-> FALSE, text |-> ""]} \cup {[ok |-> TRUE, text |-> t] : t \in Texts}

\* What the profile endpoint can answer: a profile with a name, or a failure.
ProfileReplies ==
    {[ok |-> FALSE, name |-> ""]} \cup {[ok |-> TRUE, name |-> n] : n \in Names}

VARIABLES
    conversations,    \* dict: conversation id -> reference of a list object
    heap,             \* list objects: reference -> sequence of turns
    nextUuid,         \* number of uuid4 values generated so far
    pc,               \* per request slot: where its handler is suspended
    request,          \* per slot: the request being served
    conversation_id,  \* per slot: local of process_query
    history,          \* per slot: local of process_query (a reference)
    user_data,        \* per slot: local of process_query (the name field)
    intent,           \* per slot: local of process_query
    improved_query,   \* per slot: local of process_query
    context,          \* per slot: local of process_query
    answer,           \* per slot: local of process_query
    response,         \* per slot: what the endpoint answered
    calls,            \* per slot: the external calls of the current cycle
    failed,           \* per slot: the calls of the current cycle that failed
    loaded,           \* per slot: the store entry as it was when loaded
    cycleLog,         \* per stored id: status of each cycle persisted to it
    returned,         \* conversation ids returned to callers so far
    cycles,           \* number of POST /query requests received
    overlap           \* per slot: the requests served while the cycle was in
                      \* flight: "query", "delete" on its id, "other" cycles

vars == <<conversations, heap, nextUuid, pc, request, conversation_id, history,
          user_data, intent, improved_query, context, answer, response, calls,
          failed, loaded, cycleLog, returned, cycles, overlap>>

\* ---------------------------------------------------------------- helpers
UserTurn(q) == [role |-> "user", content |-> q]

AssistantTurn(a) == [role |-> "assistant", content |-> a]

Uuid(n) == "uuid-" \o ToString(n)

Put(d, k, v) == [x \in (DOMAIN d) \cup {k} |-> IF x = k THEN v ELSE d[x]]

Remove(d, k) == [x \in (DOMAIN d) \ {k} |-> d[x]]

NoRequest == [op |-> "none", query |-> "", phone |-> "", conversation_id |-> None]

NoResponse ==
    [status |-> 0, answer |-> "", intent |-> "", conversation_id |-> "", detail |-> ""]

NoPair == <<>>

NotLoaded == [present |-> FALSE, turns |-> <<>>, n |-> 0, prev |-> NoPair, seen |-> FALSE]

NoLog == [ok |-> 0, err |-> 0, last |-> NoPair]

\* The inputs and the replies of the outside world a specification draws from.
AllInputs ==
    [cids |-> {None, ""} \cup CallerIds, queries |-> Queries \cup {""},
     phones |-> Phones \cup {""},
     profile |-> ProfileReplies, classifier |-> ClassifierReplies,
     completion |-> CompletionReplies, notify |-> BOOLEAN]

\* str.replace on a text kept as a sequence of pieces.
Replace(text, old, new) == [k \in DOMAIN text |-> IF text[k] = old THEN new ELSE text[k]]

\* The system prompt of each LLM call, as the pieces that matter: the fixed
\* instructions and the placeholders.  The prompts of llm_service.py are plain
\* string literals that are never formatted, so "{query}" stays as written
\* (and generate_greeting does not use its user_name parameter).  The prompt of
\* generate_rag_response is an f-string, in which "{{query}}" and
\* "{{context}}" come out as "{query}" and "{context}"; the replace calls of
\* rag_service.py:144 then look for the doubled braces.
SystemPrompt(op, q, arg) ==
    CASE op = "classify_intent" -> <<"<task> classify", "<query>", "{query}">>
      [] op = "generate_greeting" -> <<"<role> greeting", "<customer_greeting>", "{query}">>
      [] op = "generate_attendance_response" ->
            <<"<role> attendance", "<customer_message>", "{query}">>
      [] op = "generate_praise_response" -> <<"<role> praise", "<customer_message>", "{query}">>
      [] op = "generate_other_response" -> <<"<role> other", "<customer_message>", "{query}">>
      [] op = "improve_query_for_rag" -> <<"improve for RAG", "<input>", "{query}">>
      [] op = "generate_rag_response" ->
            Replace(Replace(<<"<persona>", "<query>", "{query}", "<context>", "{context}">>,
                            "{{query}}", q),
                    "{{context}}", arg)
      [] OTHER -> <<>>

\* An external call: its arguments, the history it was given, and for an LLM
\* call the system prompt and the messages of the completion request.
Call(op, q, arg, hist, msgs) ==
    [op |-> op, query |-> q, arg |-> arg, hist |-> hist, msgs |-> msgs,
     system |-> SystemPrompt(op, q, arg)]

\* The history stored under id, as a value (<<>> when id is no key).
Stored(id) == IF id \in DOMAIN conversations THEN heap[conversations[id]] ELSE <<>>

LogOf(id) == IF id \in DOMAIN cycleLog THEN cycleLog[id] ELSE NoLog

\* What a request finds under id when it reads the store: whether id is a
\* key, the turns stored, how many cycles persisted to id since it was
\* created, the turn pair the latest of them persisted, and whether id was
\* returned to a caller before.
Snapshot(id) ==
    [present |-> id \in DOMAIN conversations, turns |-> Stored(id),
     n |-> LogOf(id).ok + LogOf(id).err, prev |-> LogOf(id).last,
     seen |-> id \in returned]

\* Mutant of NewRef: every new history is the same list object.
NewRefShared(hp) == 1

\* A new list object gets the first free reference.
NewRef(hp) == CHOOSE r \in 1..(Cardinality(DOMAIN hp) + 1) : r \notin DOMAIN hp

\* CPython frees a list when its last reference goes: what stays is what the
\* store or the local `history` of a suspended handler refers to.
Collect(hp, conv, hist, at) ==
    LET live == {conv[k] : k \in DOMAIN conv}
                    \cup {hist[p] : p \in {x \in Procs :
                                at[x] \notin {"idle", "done", "rejected"}}}
    IN  [r \in (DOMAIN hp) \cap live |-> hp[r]]

\* ---------------------------------------------------------- process_query
\* Mutant of ValidRequest: only the query is checked for emptiness.
ValidRequestQueryOnly(q, ph) == q # ""

\* schemas.py:10-11: query and phone are strings with min_length=1.
ValidRequest(q, ph) == q # "" /\ ph # ""

\* What FastAPI answers when the body does not validate as a QueryRequest.
ValidationError ==
    [status |-> 422, answer |-> "", intent |-> "", conversation_id |-> "",
     detail |-> "String should have at least 1 character"]

\* Mutant of ResolveId: `is not None` in place of truthiness, so an empty
\* conversation id is used as a key.
ResolveIdNoneOnly(cid, fresh) == IF cid # None THEN cid ELSE fresh

\* main.py:97  conversation_id = request.conversation_id or str(uuid.uuid4())
ResolveId(cid, fresh) == IF cid \notin {None, ""} THEN cid ELSE fresh

\* Mutant of MessagesAppend: `messages = history`, the append always goes to
\* the list it was given.
MessagesAppendInPlace(hp, ref, q) == [hp EXCEPT ![ref] = Append(@, UserTurn(q))]

\* `messages = history or []; messages.append({"role": "user", ...})`:
\* an empty history is falsy, so the append goes to a new list; a non-empty
\* history is appended to in place.
MessagesAppend(hp, ref, q) ==
    IF hp[ref] = <<>> THEN hp ELSE [hp EXCEPT ![ref] = Append(@, UserTurn(q))]

\* Mutant of AppendTurns: the assistant turn is not appended.
AppendTurnsUserOnly(h, q, a) == Append(h, UserTurn(q))

\* Mutant of AppendTurns: the assistant turn appended before the user turn.
AppendTurnsSwapped(h, q, a) == h \o <<AssistantTurn(a), UserTurn(q)>>

\* main.py:167-168
AppendTurns(h, q, a) == h \o <<UserTurn(q), AssistantTurn(a)>>

\* The message sequence sent to the capability after that append.
MessagesSent(hp, ref, q) == Append(hp[ref], UserTurn(q))

\* Mutant of ParseIntent: a failed classification counts as a greeting.
ParseIntentDefaultGreeting(reply) ==
    IF reply.kind = "intent" THEN reply.value ELSE "saudacao"

\* llm_service.py:106-111
ParseIntent(reply) ==
    IF reply.kind = "intent" THEN reply.value ELSE "outros"

\* Mutant of Dispatch: the praise branch is missing and falls to the else.
DispatchPraiseMissing(i) ==
    IF i = "saudacao" THEN "generate_greeting"
    ELSE IF i = "informacoes" THEN "generate_rag_response"
    ELSE IF i \in {"atendimento", "reclamacao"} THEN "generate_attendance_response"
    ELSE "generate_other_response"

\* main.py:115-164: the generator of the branch taken for an intent value.
Dispatch(i) ==
    IF i = "saudacao" THEN "generate_greeting"
    ELSE IF i = "informacoes" THEN "generate_rag_response"
    ELSE IF i \in {"atendimento", "reclamacao"} THEN "generate_attendance_response"
    ELSE IF i = "elogio" THEN "generate_praise_response"
    ELSE "generate_other_response"

\* Mutant of Notifies: the notification follows the answer of every branch.
NotifiesAlways(i) == TRUE

\* Mutant of Notifies: complaints are not notified.
NotifiesAtendimentoOnly(i) == i = "atendimento"

\* main.py:142-150: the branch that notifies Chatwoot.
Notifies(i) == i \in {"atendimento", "reclamacao"}

\* Mutant of Fallback: the praise and the other branch have each other's string.
FallbackSwapped(g) ==
    CASE g = "generate_greeting" ->
            "Hola! Soy Rodrigo de EcoDrive. Como puedo ayudarte?"
      [] g = "generate_rag_response" ->
            "Disculpa, tuve un problema al procesar tu consulta. Podrias intentarlo nuevamente?"
      [] g = "generate_attendance_response" ->
            "Dejame conectarte con un asesor humano. Puedes comunicarte al +56 9 5008 0442"
      [] g = "generate_praise_response" ->
            "Disculpa, no puedo ayudarte con eso. Te gustaria que te conecte con un asesor humano?"
      [] g = "generate_other_response" ->
            "Muchas gracias! Estamos aqui para ayudarte siempre."

\* The static string each generator returns when its completion call raises.
Fallback(g) ==
    CASE g = "generate_greeting" ->
            "Hola! Soy Rodrigo de EcoDrive. Como puedo ayudarte?"
      [] g = "generate_rag_response" ->
            "Disculpa, tuve un problema al procesar tu consulta. Podrias intentarlo nuevamente?"
      [] g = "generate_attendance_response" ->
            "Dejame conectarte con un asesor humano. Puedes comunicarte al +56 9 5008 0442"
      [] g = "generate_praise_response" ->
            "Muchas gracias! Estamos aqui para ayudarte siempre."
      [] g = "generate_other_response" ->
            "Disculpa, no puedo ayudarte con eso. Te gustaria que te conecte con un asesor humano?"

\* Mutant of ImprovedQuery: the reformulation is ignored.
ImprovedQueryRaw(r, q) == q

\* llm_service.py:369-384: the completion's text, or the original query when
\* the call raises.
ImprovedQuery(r, q) == IF r.ok THEN r.text ELSE q

\* rag_service.py:49-62: the placeholder context embeds the query it was given.
RetrieveContext(q) == "Query: " \o q

\* schemas.py:15-19: QueryResponse validates answer: str, intent: Optional[str].
ValidResponse(a, i) == i \notin {JsonNumber, JsonList}

\* str(e) of the ValidationError QueryResponse raises for intent i: the text
\* names the offending input.
ExceptionText(i) ==
    "1 validation error for QueryResponse intent Input should be a valid string "
        \o (IF i = JsonNumber THEN "[type=string_type, input_value=5, input_type=int]"
            ELSE "[type=string_type, input_value=['saudacao'], input_type=list]")

\* main.py:179-184: HTTPException(500, detail=f"Error processing query: {str(e)}")
ErrorResponse(e) ==
    [status |-> 500, answer |-> "", intent |-> "", conversation_id |-> "",
     detail |-> "Error processing query: " \o e]

\* main.py:173-184
MakeResponse(a, i, id) ==
    IF ValidResponse(a, i)
    THEN [status |-> 200, answer |-> a, intent |-> i, conversation_id |-> id,
          detail |-> ""]
    ELSE ErrorResponse(ExceptionText(i))

\* Mutant of NotifyResult: a failed notification raises to its caller.
NotifyResultRaises(ok) == [raised |-> ~ok, value |-> ok]

\* external_api.py:79-94: True, or False when the request or anything else in
\* the try raises; no exception leaves notify_chatwoot_label.
NotifyResult(ok) == [raised |-> FALSE, value |-> ok]

\* Mutant of DeleteEntry: the entry is not deleted.
DeleteEntryKeeps(conv, id) == conv

\* Mutant of DeleteResponse: the success message whether or not the id was found.
DeleteResponseAlwaysOk(found, id) ==
    [status |-> 200, answer |-> "", intent |-> "", conversation_id |-> id,
     detail |-> "Conversation deleted successfully"]

\* main.py:190-191: `del conversations[conversation_id]` when it is a key.
DeleteEntry(conv, id) == IF id \in DOMAIN conv THEN Remove(conv, id) ELSE conv

\* main.py:192-197: the message, or HTTPException(404).
DeleteResponse(found, id) ==
    IF found
    THEN [status |-> 200, answer |-> "", intent |-> "", conversation_id |-> id,
          detail |-> "Conversation deleted successfully"]
    ELSE [status |-> 404, answer |-> "", intent |-> "", conversation_id |-> id,
          detail |-> "Conversation not found"]

Init ==
    /\ conversations = <<>>
    /\ heap = <<>>
    /\ nextUuid = 0
    /\ pc = [p \in Procs |-> "idle"]
    /\ request = [p \in Procs |-> NoRequest]
    /\ conversation_id = [p \in Procs |-> ""]
    /\ history = [p \in Procs |-> 0]
    /\ user_data = [p \in Procs |-> ""]
    /\ intent = [p \in Procs |-> ""]
    /\ improved_query = [p \in Procs |-> ""]
    /\ context = [p \in Procs |-> ""]
    /\ answer = [p \in Procs |-> ""]
    /\ response = [p \in Procs |-> NoResponse]
    /\ calls = [p \in Procs |-> <<>>]
    /\ failed = [p \in Procs |-> {}]
    /\ loaded = [p \in Procs |-> NotLoaded]
    /\ cycleLog = <<>>
    /\ returned = {}
    /\ cycles = 0
    /\ overlap = [p \in Procs |-> {}]

Free(p) == pc[p] \in {"idle", "done", "rejected"}

InFlight(p) == ~Free(p)

\* Slot p starts serving a request of the given kind on id: the cycles in
\* flight on the same id are marked with the kind, and a cycle that starts
\* marks the cycles in flight on other ids with "other"; p's own cycle gets
\* the marks of the cycles it finds in flight.
Mark(p, id, kind) ==
    [x \in Procs |->
        IF x = p
        THEN IF kind = "query"
             THEN {"query" : y \in {z \in Procs \ {p} :
                                    InFlight(z) /\ conversation_id[z] = id}}
                    \cup {"other" : y \in {z \in Procs \ {p} :
                                    InFlight(z) /\ conversation_id[z] # id}}
             ELSE {}
        ELSE IF kind = "none" \/ ~InFlight(x) THEN overlap[x]
        ELSE IF conversation_id[x] = id THEN overlap[x] \cup {kind}
        ELSE IF kind = "query" THEN overlap[x] \cup {"other"}
        ELSE overlap[x]]

\* main.py:78-79, schemas.py:8-12: the body of POST /query is validated as a
\* QueryRequest before process_query is called; when it does not validate,
\* the handler does not run and the caller gets the validation error.
Reject(p, in) ==
    /\ Free(p)
    /\ cycles < MaxCycles
    /\ \E q \in in.queries, ph \in in.phones, cid \in in.cids :
        /\ ~ValidRequest(q, ph)
        /\ request' = [request EXCEPT ![p] =
                [op |-> "query", query |-> q, phone |-> ph, conversation_id |-> cid]]
    /\ pc' = [pc EXCEPT ![p] = "rejected"]
    /\ response' = [response EXCEPT ![p] = ValidationError]
    /\ conversation_id' = [conversation_id EXCEPT ![p] = ""]
    /\ user_data' = [user_data EXCEPT ![p] = ""]
    /\ intent' = [intent EXCEPT ![p] = ""]
    /\ improved_query' = [improved_query EXCEPT ![p] = ""]
    /\ context' = [context EXCEPT ![p] = ""]
    /\ answer' = [answer EXCEPT ![p] = ""]
    /\ calls' = [calls EXCEPT ![p] = <<>>]
    /\ failed' = [failed EXCEPT ![p] = {}]
    /\ loaded' = [loaded EXCEPT ![p] = NotLoaded]
    /\ cycles' = cycles + 1
    /\ overlap' = Mark(p, "", "none")
    /\ UNCHANGED <<conversations, heap, nextUuid, history, cycleLog, returned>>

\* main.py:95-105: resolve the id, load the history, call get_user_by_phone
\* up to its `await client.post`.
Start(p, in) ==
    /\ Free(p)
    /\ cycles < MaxCycles
    /\ \E q \in in.queries, ph \in in.phones, cid \in in.cids \cup returned :
        LET id == ResolveId(cid, Uuid(nextUuid + 1))
            found == id \in DOMAIN conversations
            ref == IF found THEN conversations[id] ELSE NewRef(heap)
        IN  /\ ValidRequest(q, ph)
            /\ request' = [request EXCEPT ![p] =
                    [op |-> "query", query |-> q, phone |-> ph, conversation_id |-> cid]]
            /\ nextUuid' = IF id = cid THEN nextUuid ELSE nextUuid + 1
            /\ conversation_id' = [conversation_id EXCEPT ![p] = id]
            /\ heap' = IF found THEN heap ELSE Put(heap, ref, <<>>)
            /\ history' = [history EXCEPT ![p] = ref]
            /\ loaded' = [loaded EXCEPT ![p] = Snapshot(id)]
            /\ overlap' = Mark(p, id, "query")
            /\ calls' = [calls EXCEPT ![p] =
                    <<Call("get_user_by_phone", q, ph, <<>>, <<>>)>>]
    /\ pc' = [pc EXCEPT ![p] = "await_profile"]
    /\ user_data' = [user_data EXCEPT ![p] = ""]
    /\ intent' = [intent EXCEPT ![p] = ""]
    /\ improved_query' = [improved_query EXCEPT ![p] = ""]
    /\ context' = [context EXCEPT ![p] = ""]
    /\ answer' = [answer EXCEPT ![p] = ""]
    /\ response' = [response EXCEPT ![p] = NoResponse]
    /\ failed' = [failed EXCEPT ![p] = {}]
    /\ cycles' = cycles + 1
    /\ UNCHANGED <<conversations, cycleLog, returned>>

\* The LLM call of classify_intent, of a generator or of the reformulator: it
\* appends the user turn to the history it was given and sends the messages
\* (llm_service.py:92-104, 168-179, 220-231, 271-282, 322-333, 367-378;
\* rag_service.py:140-154).
LLMCall(p, op, arg) ==
    /\ heap' = MessagesAppend(heap, history[p], request[p].query)
    /\ calls' = [calls EXCEPT ![p] = Append(@,
            Call(op, request[p].query, arg, heap[history[p]],
                 MessagesSent(heap, history[p], request[p].query)))]

\* external_api.py:49-65 and main.py:105-109, llm_service.py:92-96: the
\* profile call returns or fails; classify_intent runs up to its `await`.
ProfileReturn(p, in) ==
    /\ pc[p] = "await_profile"
    /\ \E r \in in.profile :
        /\ user_data' = [user_data EXCEPT ![p] = IF r.ok THEN r.name ELSE ""]
        /\ failed' = [failed EXCEPT ![p] =
                IF r.ok THEN @ ELSE @ \cup {"get_user_by_phone"}]
    /\ LLMCall(p, "classify_intent", "")
    /\ pc' = [pc EXCEPT ![p] = "await_classify"]
    /\ UNCHANGED <<conversations, nextUuid, request, conversation_id, history, intent,
                   improved_query, context, answer, response, loaded, cycleLog,
                   returned, cycles, overlap>>

\* llm_service.py:106-111 and main.py:109-164: the classification returns or
\* fails; the branch is chosen and its first LLM call runs up to its `await`.
ClassifyReturn(p, in) ==
    /\ pc[p] = "await_classify"
    /\ \E r \in in.classifier :
        LET i == ParseIntent(r)
        IN  /\ intent' = [intent EXCEPT ![p] = i]
            /\ failed' = [failed EXCEPT ![p] =
                    IF r.kind = "intent" THEN @ ELSE @ \cup {"classify_intent"}]
            /\ IF Dispatch(i) = "generate_rag_response"
               THEN /\ LLMCall(p, "improve_query_for_rag", "")
                    /\ pc' = [pc EXCEPT ![p] = "await_improve"]
               ELSE /\ LLMCall(p, Dispatch(i),
                               IF Dispatch(i) = "generate_greeting" THEN user_data[p] ELSE "")
                    /\ pc' = [pc EXCEPT ![p] = "await_generate"]
    /\ UNCHANGED <<conversations, nextUuid, request, conversation_id, history, user_data,
                   improved_query, context, answer, response, loaded, cycleLog,
                   returned, cycles, overlap>>

\* llm_service.py:380-384, main.py:130-140, rag_service.py:27-62, 140-154: the
\* reformulation returns or fails; retrieve_context runs (it has no external
\* call); generate_rag_response runs up to its `await`.
ImproveReturn(p, in) ==
    /\ pc[p] = "await_improve"
    /\ \E r \in in.completion :
        LET iq == ImprovedQuery(r, request[p].query)
            ctx == RetrieveContext(iq)
        IN  /\ improved_query' = [improved_query EXCEPT ![p] = iq]
            /\ context' = [context EXCEPT ![p] = ctx]
            /\ failed' = [failed EXCEPT ![p] =
                    IF r.ok THEN @ ELSE @ \cup {"improve_query_for_rag"}]
            /\ heap' = MessagesAppend(heap, history[p], request[p].query)
            /\ calls' = [calls EXCEPT ![p] = @ \o
                    <<Call("retrieve_context", iq, "", <<>>, <<>>),
                      Call("generate_rag_response", request[p].query, ctx,
                           heap[history[p]],
                           MessagesSent(heap, history[p], request[p].query))>>]
    /\ pc' = [pc EXCEPT ![p] = "await_generate"]
    /\ UNCHANGED <<conversations, nextUuid, request, conversation_id, history, user_data,
                   intent, answer, response, loaded, cycleLog, returned, cycles, overlap>>

\* main.py:166-184: append the turn pair to the working history, store it
\* under the conversation id, build the response and return (the handler's
\* reference to the list is dropped).
Persist(p, a) ==
    LET id == conversation_id[p]
        resp == MakeResponse(a, intent[p], id)
        log == LogOf(id)
    IN  /\ conversations' = Put(conversations, id, history[p])
        /\ pc' = [pc EXCEPT ![p] = "done"]
        /\ history' = [history EXCEPT ![p] = 0]
        /\ heap' = Collect(
                [heap EXCEPT ![history[p]] = AppendTurns(@, request[p].query, a)],
                conversations', history', pc')
        /\ response' = [response EXCEPT ![p] = resp]
        /\ cycleLog' = Put(cycleLog, id,
                [ok |-> log.ok + (IF resp.status = 200 THEN 1 ELSE 0),
                 err |-> log.err + (IF resp.status = 200 THEN 0 ELSE 1),
                 last |-> <<UserTurn(request[p].query), AssistantTurn(a)>>])
        /\ returned' = IF resp.status = 200 THEN returned \cup {id} ELSE returned

\* The generators' return (llm_service.py:181-185, 233-237, 284-288, 335-339,
\* rag_service.py:156-160) and main.py:142-184: the answer is the completion
\* or the branch's fallback; the attendance branch then calls
\* notify_chatwoot_label up to its `await`, every other branch persists.
GenerateReturn(p, in) ==
    /\ pc[p] = "await_generate"
    /\ \E r \in in.completion :
        LET a == IF r.ok THEN r.text ELSE Fallback(Dispatch(intent[p]))
        IN  /\ answer' = [answer EXCEPT ![p] = a]
            /\ failed' = [failed EXCEPT ![p] =
                    IF r.ok THEN @ ELSE @ \cup {Dispatch(intent[p])}]
            /\ IF Notifies(intent[p])
               THEN /\ calls' = [calls EXCEPT ![p] = Append(@,
                            Call("notify_chatwoot_label", "", conversation_id[p],
                                 <<>>, <<>>))]
                    /\ pc' = [pc EXCEPT ![p] = "await_notify"]
                    /\ UNCHANGED <<conversations, heap, history, response, cycleLog,
                                   returned>>
               ELSE /\ Persist(p, a)
                    /\ UNCHANGED calls
    /\ UNCHANGED <<nextUuid, request, conversation_id, user_data, intent,
                   improved_query, context, loaded, cycles, overlap>>

\* main.py:179-184: an exception raised inside the try ends the cycle with
\* HTTPException 500; nothing is appended or stored.
Raise(p, e) ==
    /\ pc' = [pc EXCEPT ![p] = "done"]
    /\ history' = [history EXCEPT ![p] = 0]
    /\ heap' = Collect(heap, conversations, history', pc')
    /\ response' = [response EXCEPT ![p] = ErrorResponse(e)]
    /\ UNCHANGED <<conversations, cycleLog, returned>>

\* external_api.py:85-94 and main.py:150-184: the notification returns True
\* or False (its result is dropped); then persist and respond.
NotifyReturn(p, in) ==
    /\ pc[p] = "await_notify"
    /\ \E ok \in in.notify :
        /\ failed' = [failed EXCEPT ![p] =
                IF ok THEN @ ELSE @ \cup {"notify_chatwoot_label"}]
        /\ IF NotifyResult(ok).raised
           THEN Raise(p, "notify_chatwoot_label")
           ELSE Persist(p, answer[p])
    /\ UNCHANGED <<nextUuid, request, conversation_id, user_data, intent,
                   improved_query, context, answer, calls, loaded, cycles, overlap>>

\* main.py:187-197: DELETE /conversation/{conversation_id}.
delete_conversation(p, in) ==
    /\ Free(p)
    /\ \E id \in (in.cids \ {None, ""}) \cup returned :
        LET found == id \in DOMAIN conversations
        IN  /\ request' = [request EXCEPT ![p] =
                    [op |-> "delete", query |-> "", phone |-> "", conversation_id |-> id]]
            /\ conversations' = DeleteEntry(conversations, id)
            /\ cycleLog' = [k \in DOMAIN conversations' |-> cycleLog[k]]
            /\ response' = [response EXCEPT ![p] = DeleteResponse(found, id)]
            /\ loaded' = [loaded EXCEPT ![p] = Snapshot(id)]
            /\ overlap' = Mark(p, id, IF found THEN "delete" ELSE "none")
    /\ pc' = [pc EXCEPT ![p] = "done"]
    /\ heap' = Collect(heap, conversations', history, pc')
    /\ calls' = [calls EXCEPT ![p] = <<>>]
    /\ failed' = [failed EXCEPT ![p] = {}]
    /\ UNCHANGED <<nextUuid, conversation_id, history, user_data, intent,
                   improved_query, context, answer, returned, cycles>>

Handler(p, in) ==
    \/ Reject(p, in)
    \/ Start(p, in)
    \/ ProfileReturn(p, in)
    \/ ClassifyReturn(p, in)
    \/ ImproveReturn(p, in)
    \/ GenerateReturn(p, in)
    \/ NotifyReturn(p, in)
    \/ delete_conversation(p, in)

\* Requests served one after another: a single request slot.
Next == \E p \in {1} : Handler(p, AllInputs)

Spec == Init /\ [][Next]_vars

\* The requests of overlapping cycles: two caller-chosen ids, two queries,
\* every call answering, three of the branches.
RaceInputs ==
    [cids |-> {"c1", "c2"}, queries |-> Queries \cup {""}, phones |-> Phones,
     profile |-> {r \in ProfileReplies : r.ok},
     classifier |-> {r \in ClassifierReplies :
                        r.value \in {"saudacao", "informacoes", "atendimento"}},
     completion |-> {r \in CompletionReplies : r.ok}, notify |-> {TRUE}]

\* Requests served concurrently: the handlers of the slots interleave at
\* their suspension points, as coroutines of one event loop do.
ConcNext == \E p \in Procs : Handler(p, RaceInputs)

ConcSpec == Init /\ [][ConcNext]_vars

\* ------------------------------------------------------------------ claims
GeneratorOps ==
    {"generate_greeting", "generate_rag_response", "generate_attendance_response",
     "generate_praise_response", "generate_other_response"}

\* Slot p serves, or served, a POST /query that process_query accepted.
IsQuery(p) == request[p].op = "query" /\ pc[p] # "rejected"

IsDelete(p) == request[p].op = "delete"

Done(p) == pc[p] = "done"

Quiet == \A p \in Procs : Free(p)

Alternates(h) ==
    \A k \in 1..Len(h) : h[k].role = (IF k % 2 = 1 THEN "user" ELSE "assistant")

IsPrefix(a, b) == Len(a) <= Len(b) /\ SubSeq(b, 1, Len(a)) = a

LastTwo(h) == SubSeq(h, Len(h) - 1, Len(h))

CallsOf(p, ops) == SelectSeq(calls[p], LAMBDA c : c.op \in ops)

\* C1: after N successful cycles run one after another on one conversation
\* id, the history stored under it has exactly 2N turns, alternating user,
\* assistant, starting with a user turn.
C1_HistoryIsTwoTurnsPerCycle ==
    \A id \in DOMAIN conversations :
        (Quiet /\ cycleLog[id].err = 0) =>
            /\ Len(Stored(id)) = 2 * cycleLog[id].ok
            /\ Alternates(Stored(id))

\* C2: between loading the history and the final persist, the history stored
\* under the cycle's conversation id is what it was when the cycle started,
\* for new and for existing ids.
C2_StoreUntouchedBeforePersist ==
    \A p \in Procs :
        (IsQuery(p) /\ InFlight(p)) =>
            /\ (conversation_id[p] \in DOMAIN conversations) = loaded[p].present
            /\ Stored(conversation_id[p]) = loaded[p].turns

\* C3: for each of the six labels, the cycle invokes the generator of the
\* matching branch exactly once and no generator of another branch.
C3_OneMatchingGenerator ==
    \A p \in Procs :
        (IsQuery(p) /\ intent[p] \in Labels) =>
            LET gens == CallsOf(p, GeneratorOps)
                want == CASE intent[p] = "saudacao" -> "generate_greeting"
                          [] intent[p] = "informacoes" -> "generate_rag_response"
                          [] intent[p] = "atendimento" -> "generate_attendance_response"
                          [] intent[p] = "reclamacao" -> "generate_attendance_response"
                          [] intent[p] = "elogio" -> "generate_praise_response"
                          [] intent[p] = "outros" -> "generate_other_response"
            IN  /\ Len(gens) <= 1
                /\ \A k \in 1..Len(gens) : gens[k].op = want
                /\ pc[p] \in {"await_generate", "await_notify", "done"} => Len(gens) = 1

C3_Witness ==
    \E p \in Procs :
        /\ Done(p) /\ IsQuery(p) /\ intent[p] = "elogio"
        /\ CallsOf(p, GeneratorOps) # <<>>
        /\ CallsOf(p, GeneratorOps)[1].op = "generate_praise_response"

\* C4: when the generation call of the dispatched branch fails, the answer
\* (returned, and stored as the assistant turn) is that branch's own fallback
\* string; the five fallback strings are pairwise distinct.
C4_BranchFallback ==
    /\ \A p \in Procs :
        (IsQuery(p) /\ pc[p] \in {"await_notify", "done"}
                /\ failed[p] \cap GeneratorOps # {}) =>
            LET own ==
                  CASE intent[p] = "saudacao" ->
                        "Hola! Soy Rodrigo de EcoDrive. Como puedo ayudarte?"
                    [] intent[p] = "informacoes" ->
                        "Disculpa, tuve un problema al procesar tu consulta. Podrias intentarlo nuevamente?"
                    [] intent[p] \in {"atendimento", "reclamacao"} ->
                        "Dejame conectarte con un asesor humano. Puedes comunicarte al +56 9 5008 0442"
                    [] intent[p] = "elogio" ->
                        "Muchas gracias! Estamos aqui para ayudarte siempre."
                    [] OTHER ->
                        "Disculpa, no puedo ayudarte con eso. Te gustaria que te conecte con un asesor humano?"
            IN  /\ answer[p] = own
                /\ Done(p) =>
                    /\ Stored(conversation_id[p]) # <<>>
                    /\ Stored(conversation_id[p])[Len(Stored(conversation_id[p]))]
                            = AssistantTurn(own)
                    /\ response[p].status = 200 => response[p].answer = own
    /\ Cardinality({Fallback(g) : g \in GeneratorOps}) = Cardinality(GeneratorOps)

C4_Witness ==
    \E p \in Procs :
        /\ Done(p) /\ IsQuery(p) /\ intent[p] = "elogio"
        /\ "generate_praise_response" \in failed[p]
        /\ response[p].status = 200
        /\ response[p].answer = "Muchas gracias! Estamos aqui para ayudarte siempre."

\* C5: whatever external calls of a cycle fail (profile lookup,
\* classification, reformulation, generation, notification), the cycle
\* returns an answer, never an error, and persists the turn pair.
C5_NeverAnError ==
    \A p \in Procs :
        (IsQuery(p) /\ Done(p)) =>
            /\ response[p].status = 200
            /\ response[p].answer = answer[p]
            /\ Len(Stored(conversation_id[p])) >= 2
            /\ LastTwo(Stored(conversation_id[p]))
                    = <<UserTurn(request[p].query), AssistantTurn(answer[p])>>

\* C6: the notifier is invoked exactly once, with the cycle's conversation
\* id, in a cycle classified atendimento or reclamacao, and never in a cycle
\* with another intent.
C6_NotifierFiring ==
    \A p \in Procs :
        IsQuery(p) =>
            LET nots == CallsOf(p, {"notify_chatwoot_label"})
            IN  /\ Len(nots) <= 1
                /\ \A k \in 1..Len(nots) : nots[k].arg = conversation_id[p]
                /\ (Done(p) /\ intent[p] \in {"atendimento", "reclamacao"}) => Len(nots) = 1
                /\ intent[p] \notin {"atendimento", "reclamacao"} => Len(nots) = 0

C6_Witness ==
    \E p \in Procs :
        /\ Done(p) /\ IsQuery(p) /\ intent[p] = "reclamacao"
        /\ Len(CallsOf(p, {"notify_chatwoot_label"})) = 1
        /\ CallsOf(p, {"notify_chatwoot_label"})[1].arg = conversation_id[p]

\* Slot p takes a step that serves a DELETE request.
DeleteStep(p) ==
    /\ Free(p) /\ pc'[p] = "done" /\ request'[p].op = "delete"
    /\ <<pc[p], request[p], response[p], loaded[p]>>
            # <<pc'[p], request'[p], response'[p], loaded'[p]>>

C8_DeleteRemoves ==
    [][\A p \in Procs :
        /\ (DeleteStep(p) /\ request'[p].conversation_id \in DOMAIN conversations) =>
            /\ response'[p].status = 200
            /\ request'[p].conversation_id \notin DOMAIN conversations'
            /\ \A k \in (DOMAIN conversations) \ {request'[p].conversation_id} :
                /\ k \in DOMAIN conversations'
                /\ heap'[conversations'[k]] = heap[conversations[k]]
        /\ (/\ Done(p) /\ IsDelete(p) /\ response[p].status = 200
            /\ pc'[p] = "await_profile"
            /\ request'[p].conversation_id = request[p].conversation_id
            /\ \A q \in Procs : InFlight(q) =>
                    conversation_id[q] # request[p].conversation_id) =>
            /\ conversation_id'[p] = request[p].conversation_id
            /\ ~loaded'[p].present
            /\ loaded'[p].turns = <<>>
            /\ heap'[history'[p]] = <<>>]_vars

C8_Witness ==
    \E p \in Procs :
        /\ Done(p) /\ IsDelete(p) /\ loaded[p].present /\ loaded[p].turns # <<>>
        /\ response[p].status = 200
        /\ request[p].conversation_id \notin DOMAIN conversations
        /\ DOMAIN conversations # {}

\* C9: a non-empty conversationId supplied by the caller is used verbatim as
\* store key and as the conversationId of the response; an absent or empty
\* one is replaced by a fresh id, which is no key of the store and was
\* returned by no earlier cycle.
C9_ConversationIdResolution ==
    \A p \in Procs :
        IsQuery(p) =>
            LET cid == request[p].conversation_id
            IN  /\ cid \notin {None, ""} => conversation_id[p] = cid
                /\ cid \in {None, ""} =>
                    /\ conversation_id[p] \notin {None, ""}
                    /\ ~loaded[p].present
                    /\ ~loaded[p].seen
                /\ Done(p) =>
                    /\ conversation_id[p] \in DOMAIN conversations
                    /\ response[p].status = 200 =>
                            response[p].conversation_id = conversation_id[p]

C9_Witness ==
    \E p \in Procs :
        /\ Done(p) /\ IsQuery(p) /\ request[p].conversation_id = ""
        /\ response[p].status = 200
        /\ response[p].conversation_id = "uuid-2"
        /\ DOMAIN conversations = {"uuid-1", "uuid-2"}

\* C10: in the cycle that follows another on the same conversation id with no
\* delete in between, the history given to the classifier and to the
\* generator starts with what was stored, which ends with the turn pair the
\* earlier cycle persisted; after the first cycle of a conversation that pair
\* is its two leading turns, user turn first.
C10_HistoryContinuity ==
    \A p \in Procs :
        (IsQuery(p) /\ loaded[p].n >= 1) =>
            /\ loaded[p].present
            /\ Len(loaded[p].turns) >= 2
            /\ LastTwo(loaded[p].turns) = loaded[p].prev
            /\ loaded[p].n = 1 => loaded[p].turns = loaded[p].prev
            /\ loaded[p].prev[1].role = "user" /\ loaded[p].prev[2].role = "assistant"
            /\ \A k \in 1..Len(calls[p]) :
                calls[p][k].op \in GeneratorOps \cup {"classify_intent"} =>
                    IsPrefix(loaded[p].turns, calls[p][k].hist)

C10_Witness ==
    \E p \in Procs :
        /\ IsQuery(p) /\ Done(p) /\ loaded[p].n = 1
        /\ intent[p] = "saudacao"
        /\ \E k \in 1..Len(calls[p]) :
            /\ calls[p][k].op = "generate_greeting"
            /\ SubSeq(calls[p][k].hist, 1, 2) = <<UserTurn("q1"), AssistantTurn("t1")>>

C12_EmptyFieldRejected ==
    [][\A p \in Procs :
        (/\ <<pc[p], request[p]>> # <<pc'[p], request'[p]>>
         /\ request'[p].op = "query"
         /\ (request'[p].query = "" \/ request'[p].phone = "")) =>
            /\ pc'[p] = "rejected"
            /\ response'[p].status = 422
            /\ calls'[p] = <<>>
            /\ conversations' = conversations
            /\ heap' = heap]_vars

C12_Witness ==
    \E p \in Procs :
        /\ pc[p] = "rejected" /\ request[p].query = "q1" /\ request[p].phone = ""
        /\ request[p].conversation_id = "c1"
        /\ Stored("c1") # <<>>
        /\ response[p].status = 422
        /\ calls[p] = <<>>

\* The calls of slot p's cycle after the classification.
AfterClassify(p) ==
    SelectSeq(calls[p], LAMBDA c : c.op \notin {"get_user_by_phone", "classify_intent"})

\* Slot p's cycle took the information branch and got past the retrieval.
Retrieved(p) ==
    IsQuery(p) /\ intent[p] = "informacoes" /\ pc[p] \in {"await_generate", "done"}

\* C13 as stated: in an informacoes cycle the Reformulator is invoked before
\* the Retriever, the Retriever is invoked with the Reformulator's output and
\* not with the raw query, and the information generator is invoked
\* afterwards with the raw query and the context the Retriever returned.
C13_RetrieverNeverGetsRawQuery ==
    \A p \in Procs :
        Retrieved(p) =>
            LET seq == AfterClassify(p)
            IN  /\ Len(seq) = 3
                /\ seq[1].op = "improve_query_for_rag"
                /\ seq[2].op = "retrieve_context"
                /\ seq[2].query = improved_query[p]
                /\ seq[2].query # request[p].query
                /\ seq[3].op = "generate_rag_response"
                /\ seq[3].query = request[p].query
                /\ seq[3].arg = context[p]

\* C13 as amended: the Reformulator is invoked before the Retriever, the
\* Retriever is invoked with what the Reformulator returned, which is the
\* reformulated text when the reformulation call succeeded and the raw query
\* when it failed, and the information generator is invoked afterwards with
\* the raw query and the context the Retriever returned.
C13_RetrieverGetsReformulatorResult ==
    \A p \in Procs :
        Retrieved(p) =>
            LET seq == AfterClassify(p)
            IN  /\ Len(seq) = 3
                /\ seq[1].op = "improve_query_for_rag"
                /\ seq[1].query = request[p].query
                /\ seq[2].op = "retrieve_context"
                /\ seq[2].query = improved_query[p]
                /\ IF "improve_query_for_rag" \in failed[p]
                   THEN seq[2].query = request[p].query
                   ELSE seq[2].query \in Texts
                /\ seq[3].op = "generate_rag_response"
                /\ seq[3].query = request[p].query
                /\ seq[3].arg = context[p]
                /\ context[p] = "Query: " \o seq[2].query

C13_Witness ==
    \E p \in Procs :
        /\ Retrieved(p) /\ Done(p) /\ "improve_query_for_rag" \in failed[p]
        /\ request[p].query = "q1"
        /\ AfterClassify(p)[2].query = "q1"
        /\ AfterClassify(p)[3].arg = "Query: q1"

\* C14: in a cycle on a conversation id with no stored history the generator
\* (and the reformulator) receives an empty history, and after the cycle the
\* history stored under the id is exactly the user turn with the query and
\* the assistant turn with the answer, the answer returned to the caller; for
\* every intent branch.
C14_FirstCycleHistory ==
    \A p \in Procs :
        (IsQuery(p) /\ ~loaded[p].present) =>
            /\ \A k \in 1..Len(calls[p]) :
                calls[p][k].op \in GeneratorOps \cup {"improve_query_for_rag"} =>
                    calls[p][k].hist = <<>>
            /\ Done(p) =>
                /\ Len(CallsOf(p, GeneratorOps)) = 1
                /\ Stored(conversation_id[p])
                        = <<UserTurn(request[p].query), AssistantTurn(answer[p])>>
                /\ response[p].status = 200 => response[p].answer = answer[p]

C14_Witness ==
    \E p \in Procs :
        /\ IsQuery(p) /\ Done(p) /\ ~loaded[p].present /\ intent[p] = "informacoes"
        /\ CallsOf(p, GeneratorOps)[1].hist = <<>>
        /\ Stored(conversation_id[p]) = <<UserTurn("q1"), AssistantTurn("t1")>>
        /\ response[p].status = 200 /\ response[p].answer = "t1"

\* C15: the outcome of the Notifier never influences the result of the cycle:
\* the answer, the intent and the persisted turn pair are what the generation
\* alone determines, whether the Notifier succeeds or fails, and a Notifier
\* failure never turns the cycle into an error.
C15_NotifierOutcomeIgnored ==
    \A p \in Procs :
        (IsQuery(p) /\ Done(p) /\ CallsOf(p, {"notify_chatwoot_label"}) # <<>>) =>
            /\ answer[p] =
                (IF "generate_attendance_response" \in failed[p]
                 THEN "Dejame conectarte con un asesor humano. Puedes comunicarte al +56 9 5008 0442"
                 ELSE "t1")
            /\ response[p] =
                [status |-> 200, answer |-> answer[p], intent |-> intent[p],
                 conversation_id |-> conversation_id[p], detail |-> ""]
            /\ intent[p] \in {"atendimento", "reclamacao"}
            /\ Len(Stored(conversation_id[p])) >= 2
            /\ LastTwo(Stored(conversation_id[p]))
                    = <<UserTurn(request[p].query), AssistantTurn(answer[p])>>

C15_Witness ==
    \E p \in Procs :
        /\ IsQuery(p) /\ Done(p) /\ "notify_chatwoot_label" \in failed[p]
        /\ intent[p] = "atendimento"
        /\ response[p].status = 200 /\ response[p].answer = "t1"
        /\ Stored(conversation_id[p]) = <<UserTurn("q1"), AssistantTurn("t1")>>

\* C16: when a cycle fails with a local failure, the error surfaced to the
\* caller is a fixed message: it is the same whatever the internal exception
\* that caused the failure.
C16_ErrorDetailIsFixed ==
    \A p \in Procs :
        (IsQuery(p) /\ Done(p) /\ response[p].status = 500) =>
            \A i \in IntentValues :
                ~ValidResponse(answer[p], i) =>
                    response[p].detail = MakeResponse(answer[p], i, conversation_id[p]).detail

\* C17: in a greeting cycle the request sent to the generation capability
\* depends on the profile name when it is known: with another name, and
\* everything else the same, the request sent is a different one.
C17_GreetingRequestDependsOnName ==
    \A p \in Procs :
        IsQuery(p) =>
            \A k \in 1..Len(calls[p]) :
                LET c == calls[p][k]
                IN  (c.op = "generate_greeting" /\ c.arg # "") =>
                        \A n \in AnyNames \ {c.arg} :
                            LET d == Call(c.op, c.query, n, c.hist, c.msgs)
                            IN  <<d.system, d.msgs>> # <<c.system, c.msgs>>

\* C18: the classifier call appends the current user turn to the history it
\* is given: when classify_intent has returned, the working history handed to
\* the next step is the loaded history followed by the user turn with the
\* query, in every cycle, the first cycle of a conversation included.
C18_ClassifierAppendsUserTurn ==
    \A p \in Procs :
        (IsQuery(p) /\ Len(calls[p]) >= 3) =>
            /\ calls[p][2].op = "classify_intent"
            /\ calls[p][2].hist = loaded[p].turns
            /\ calls[p][3].hist = Append(loaded[p].turns, UserTurn(request[p].query))

\* C19: the generator calls and the reformulator call have no side effect on
\* the history: for every branch, while and after such a call runs the history
\* object it was passed has the length and the content it had when the call
\* was made.
C19_GeneratorsLeaveHistoryAlone ==
    \A p \in Procs :
        (IsQuery(p) /\ pc[p] \in {"await_improve", "await_generate"}) =>
            /\ calls[p][Len(calls[p])].op \in GeneratorOps \cup {"improve_query_for_rag"}
            /\ heap[history[p]] = calls[p][Len(calls[p])].hist

\* C20: whenever the classification fails (the call raises, the content is
\* not JSON, the JSON has no intent field) or yields a value that is not
\* exactly one of the six labels, the cycle dispatches to the outros generator
\* and to nothing else, and the Notifier is not invoked.
C20_FailedClassificationIsOutros ==
    \A p \in Procs :
        (/\ IsQuery(p) /\ pc[p] \notin {"await_profile", "await_classify"}
         /\ ("classify_intent" \in failed[p] \/ intent[p] \notin Labels)) =>
            /\ pc[p] \in {"await_generate", "done"}
            /\ Len(AfterClassify(p)) = 1
            /\ AfterClassify(p)[1].op = "generate_other_response"
            /\ "classify_intent" \in failed[p] => intent[p] = "outros"

C20_Witness ==
    \E p \in Procs :
        /\ IsQuery(p) /\ Done(p) /\ "classify_intent" \in failed[p]
        /\ Len(AfterClassify(p)) = 1
        /\ AfterClassify(p)[1].op = "generate_other_response"
        /\ response[p].status = 200 /\ response[p].intent = "outros"

\* The operations of the external calls slot p's cycle has made, in order.
OpsOf(p) == [k \in 1..Len(calls[p]) |-> calls[p][k].op]

\* The number of assistant turns of a history.
Answers(h) == Len(SelectSeq(h, LAMBDA t : t.role = "assistant"))

\* C21: within one cycle the external calls are strictly ordered and never
\* overlap: the profile lookup completes before the classification starts,
\* the classification before any reformulation, retrieval or generation, the
\* Notifier starts only after the answer was produced, and the history is
\* persisted after all of them.
C21_CallsStrictlyOrdered ==
    \A p \in Procs :
        IsQuery(p) =>
            LET head == <<"get_user_by_phone", "classify_intent">>
                gen == CASE intent[p] = "saudacao" -> <<"generate_greeting">>
                         [] intent[p] = "informacoes" ->
                                <<"improve_query_for_rag", "retrieve_context",
                                  "generate_rag_response">>
                         [] intent[p] \in {"atendimento", "reclamacao"} ->
                                <<"generate_attendance_response">>
                         [] intent[p] = "elogio" -> <<"generate_praise_response">>
                         [] OTHER -> <<"generate_other_response">>
                notified == intent[p] \in {"atendimento", "reclamacao"}
                all == head \o gen \o (IF notified THEN <<"notify_chatwoot_label">> ELSE <<>>)
                id == conversation_id[p]
            IN  /\ pc[p] = "await_profile" => OpsOf(p) = SubSeq(head, 1, 1)
                /\ pc[p] = "await_classify" => OpsOf(p) = head
                /\ pc[p] = "await_improve" =>
                        intent[p] = "informacoes" /\ OpsOf(p) = head \o SubSeq(gen, 1, 1)
                /\ pc[p] = "await_generate" => OpsOf(p) = head \o gen /\ answer[p] = ""
                /\ pc[p] = "await_notify" =>
                        notified /\ OpsOf(p) = all /\ answer[p] # ""
                /\ InFlight(p) =>
                    /\ response[p] = NoResponse
                    /\ (id \in DOMAIN conversations) = loaded[p].present
                    /\ Answers(Stored(id)) = Answers(loaded[p].turns)
                /\ Done(p) =>
                    /\ OpsOf(p) = all
                    /\ id \in DOMAIN conversations
                    /\ Answers(Stored(id)) = Answers(loaded[p].turns) + 1
                    /\ Stored(id)[Len(Stored(id))] = AssistantTurn(answer[p])

C21_Witness ==
    \E p \in Procs :
        /\ IsQuery(p) /\ Done(p) /\ intent[p] = "reclamacao" /\ loaded[p].present
        /\ OpsOf(p) = <<"get_user_by_phone", "classify_intent",
                        "generate_attendance_response", "notify_chatwoot_label">>
        /\ Answers(Stored(conversation_id[p])) = 2

\* C22: the Notifier is fire-and-forget: in an atendimento or reclamacao cycle
\* the turn pair is persisted and the response returned without waiting for
\* the Notifier call, so once that call was made the cycle has its response
\* and its pair in the store whether or not the call has completed.
C22_ReturnsWithoutAwaitingNotifier ==
    \A p \in Procs :
        (IsQuery(p) /\ CallsOf(p, {"notify_chatwoot_label"}) # <<>>) =>
            /\ response[p].status = 200
            /\ Len(Stored(conversation_id[p])) >= 2
            /\ LastTwo(Stored(conversation_id[p]))
                    = <<UserTurn(request[p].query), AssistantTurn(answer[p])>>

\* C26: a cycle that ends by returning an error to the caller (HTTP 500)
\* leaves the conversation store as it was when the cycle started: no turn is
\* added to, and no entry is created for, its conversation id.
C26_ErrorLeavesStoreUnchanged ==
    \A p \in Procs :
        (IsQuery(p) /\ Done(p) /\ response[p].status = 500) =>
            /\ (conversation_id[p] \in DOMAIN conversations) = loaded[p].present
            /\ Stored(conversation_id[p]) = loaded[p].turns

\* C27: in every cycle the messages the dispatched generator sends to the
\* generation capability are the turns persisted before the cycle, in order,
\* followed by the current user query exactly once as the last message; on
\* the first cycle of a conversation and on every later one.
C27_GeneratorMessages ==
    \A p \in Procs :
        IsQuery(p) =>
            \A k \in 1..Len(calls[p]) :
                calls[p][k].op \in GeneratorOps =>
                    calls[p][k].msgs
                        = Append(loaded[p].turns, UserTurn(request[p].query))

\* The turn pair slot p's cycle persists.
PairOf(p) == <<UserTurn(request[p].query), AssistantTurn(answer[p])>>

\* Slots p and q served two cycles on one id that overlapped, each having
\* loaded the history before the other persisted, the id being new to both;
\* no later cycle is at work on what they stored.
RacedOnNewId(p, q) ==
    /\ p # q /\ IsQuery(p) /\ IsQuery(q) /\ Done(p) /\ Done(q)
    /\ conversation_id[p] = conversation_id[q]
    /\ "query" \in overlap[p] /\ "query" \in overlap[q]
    /\ ~loaded[p].present /\ ~loaded[q].present
    /\ LogOf(conversation_id[p]).ok = 2
    /\ \A r \in Procs \ {p, q} :
            ~(InFlight(r) /\ conversation_id[r] = conversation_id[p])

\* C23: two cycles on the same conversation id that overlap at their
\* suspension points race on the read-modify-persist of the history: there
\* is an interleaving after which the history stored under the id is not the
\* two-turns-per-cycle sequence.  Whenever both cycles loaded a new id before
\* either persisted, the store ends with the pair of one of them alone: the
\* pair of the other is lost.
C23_OverlappingCyclesLoseAPair ==
    \A p, q \in Procs :
        RacedOnNewId(p, q) =>
            /\ Len(Stored(conversation_id[p])) = 2
            /\ Len(Stored(conversation_id[p])) # 2 * LogOf(conversation_id[p]).ok
            /\ Stored(conversation_id[p]) \in {PairOf(p), PairOf(q)}

C23_Witness ==
    /\ RacedOnNewId(1, 2)
    /\ request[1].query = "q1" /\ request[2].query = "q2"
    /\ response[1].status = 200 /\ response[2].status = 200
    /\ Stored(conversation_id[1]) = <<UserTurn("q2"), AssistantTurn("t1")>>

\* The LLM calls a cycle makes: each appends the user turn to a non-empty
\* history.
LLMOps == GeneratorOps \cup {"classify_intent", "improve_query_for_rag"}

\* What a cycle that runs alone leaves in the store: on a new id its turn
\* pair; on an id with history the loaded turns, the user turn once per LLM
\* call, and the turn pair.
AloneResult(p) ==
    IF loaded[p].turns = <<>> THEN PairOf(p)
    ELSE loaded[p].turns
            \o [k \in 1..Len(CallsOf(p, LLMOps)) |-> UserTurn(request[p].query)]
            \o PairOf(p)

\* C24: cycles for different conversation ids do not interfere: under any
\* interleaving a step of a cycle for id A changes the history stored under
\* no other id B, and when no request on A was served during the cycle the
\* history stored under A at its end is what the cycle leaves when it runs
\* alone.
C24_OtherIdsUntouched ==
    [][\A p \in Procs :
        (pc'[p] # pc[p] /\ request'[p].op = "query" /\ pc'[p] # "rejected") =>
            /\ \A B \in (DOMAIN conversations) \ {conversation_id'[p]} :
                /\ B \in DOMAIN conversations'
                /\ heap'[conversations'[B]] = heap[conversations[B]]
            /\ (pc'[p] = "done" /\ overlap[p] \subseteq {"other"}) =>
                /\ conversation_id[p] \in DOMAIN conversations'
                /\ heap'[conversations'[conversation_id[p]]] = AloneResult(p)']_vars

C24_Witness ==
    /\ IsQuery(1) /\ IsQuery(2) /\ Done(1) /\ Done(2)
    /\ conversation_id[1] = "c1" /\ conversation_id[2] = "c2"
    /\ overlap[1] = {"other"} /\ overlap[2] = {"other"}
    /\ request[1].query = "q1" /\ request[2].query = "q2"
    /\ Stored("c1") = PairOf(1) /\ Stored("c2") = PairOf(2)

\* C25: a delete that completed with success is not undone by a cycle already
\* in flight: when delete(id) removed the history while a cycle for id was
\* suspended between its load and its persist (and no other cycle ran on
\* id), after that cycle the store holds for id at most the cycle's own two
\* turns, never the turns stored before the delete.
C25_DeleteNotUndone ==
    \A p \in Procs :
        (/\ IsQuery(p) /\ Done(p) /\ overlap[p] \ {"other"} = {"delete"}
         /\ LogOf(conversation_id[p]).ok + LogOf(conversation_id[p]).err <= 1) =>
            Stored(conversation_id[p]) \in {<<>>, PairOf(p)}

====
